---- MODULE Spec2Model ----
(***************************************************************************)
(* A model of svgfontembed (src/svgfontembed/svgfontembed.py).             *)
(*                                                                         *)
(* Five specifications share the module:                                   *)
(*   SpecUnescape  replace_escaped_unicode applied repeatedly to a text    *)
(*   SpecUsage     get_text_from_svg / the usage set of a family           *)
(*   SpecFetch     FontFace.get_font_contents called by concurrent tasks   *)
(*   Spec          embed_fonts, the pipeline over one document             *)
(*   SpecCli       svg_font_embed, the command                             *)
(*                                                                         *)
(* Abstractions.  A text handled by replace_escaped_unicode is a sequence  *)
(* of code points (ASCII digits only).  In the pipeline a declaration text *)
(* (one match of font_face_regex) is a record [family, src] whose src is   *)
(* the token sequence of its src clause; the markup's declarations are a   *)
(* sequence of such texts, and str.replace works on whole texts.  A        *)
(* document's text-bearing part is a sequence of elements (tag,            *)
(* font-family attribute, class, direct text, parent) and style rules.     *)
(***************************************************************************)
EXTENDS Integers, Sequences, FiniteSets, TLC

(***************************************************************************)
(* Bounds of the model.                                                    *)
(***************************************************************************)
MaxPieces == 7
MaxElems == 2
MaxRules == 1
MaxFaces == 2
MaxTasks == 2
MaxCalls == 3
MaxBytes == 2

(***************************************************************************)
(* Generic helpers.                                                        *)
(***************************************************************************)
SeqsUpTo(S, n) == UNION {[1..k -> S] : k \in 0..n}

Range(s) == {s[k] : k \in DOMAIN s}

RECURSIVE Flatten(_)
Flatten(ps) == IF ps = <<>> THEN <<>> ELSE Head(ps) \o Flatten(Tail(ps))

\* Python's "needle in hay" on strings, XPath's contains(hay, needle).
Contains(hay, needle) ==
    \E k \in 0..(Len(hay) - Len(needle)) :
        SubSeq(hay, k + 1, k + Len(needle)) = needle

(***************************************************************************)
(* replace_escaped_unicode: re.sub(r"&#(\d+);", chr(int(group 1)), text).  *)
(* A text is a sequence of code points.                                    *)
(***************************************************************************)
Amp == 38
Hash == 35
Semi == 59
Digit0 == 48
MaxCodePoint == 1114111

IsDigit(c) == c \in Digit0..(Digit0 + 9)

\* The index just past the greedy run \d+ that starts at k.
RECURSIVE DigitsEnd(_, _)
DigitsEnd(s, k) ==
    IF k <= Len(s) /\ IsDigit(s[k]) THEN DigitsEnd(s, k + 1) ELSE k

\* int() of the digits s[a..b-1]; Python's integers are unbounded, and a
\* value beyond MaxCodePoint is kept as MaxCodePoint + 1 (chr() raises on
\* every such value alike).
RECURSIVE IntOf(_, _, _)
IntOf(s, a, b) ==
    IF b <= a THEN 0
    ELSE LET high == IntOf(s, a, b - 1)
         IN IF high > MaxCodePoint THEN MaxCodePoint + 1
            ELSE 10 * high + (s[b - 1] - Digit0)

\* Whether the pattern &#(\d+); matches at position k of s.
RefAt(s, k) ==
    /\ k + 3 <= Len(s)
    /\ s[k] = Amp
    /\ s[k + 1] = Hash
    /\ DigitsEnd(s, k + 2) > k + 2
    /\ DigitsEnd(s, k + 2) <= Len(s)
    /\ s[DigitsEnd(s, k + 2)] = Semi

HasRef(s) == \E k \in DOMAIN s : RefAt(s, k)

\* One left-to-right pass of re.sub from position k: the leftmost match is
\* replaced by the decoded character and the scan goes on after the match.
\* A code point beyond MaxCodePoint makes chr() raise ValueError (raised).
RECURSIVE SubFrom(_, _)
SubFrom(s, k) ==
    IF k > Len(s) THEN [raised |-> FALSE, text |-> <<>>]
    ELSE IF RefAt(s, k)
         THEN LET e == DigitsEnd(s, k + 2)
                  n == IntOf(s, k + 2, e)
                  rest == SubFrom(s, e + 1)
              IN [raised |-> rest.raised \/ n > MaxCodePoint,
                  text |-> <<n>> \o rest.text]
         ELSE LET rest == SubFrom(s, k + 1)
              IN [rest EXCEPT !.text = <<s[k]>> \o rest.text]

\* A plausible slip: the pattern without its closing semicolon, &#(\d+).
RECURSIVE SubFromNoSemi(_, _)
SubFromNoSemi(s, k) ==
    IF k > Len(s) THEN [raised |-> FALSE, text |-> <<>>]
    ELSE IF k + 2 <= Len(s) /\ s[k] = Amp /\ s[k + 1] = Hash
            /\ DigitsEnd(s, k + 2) > k + 2
         THEN LET e == DigitsEnd(s, k + 2)
                  n == IntOf(s, k + 2, e)
                  rest == SubFromNoSemi(s, e)
              IN [raised |-> rest.raised \/ n > MaxCodePoint,
                  text |-> <<n>> \o rest.text]
         ELSE LET rest == SubFromNoSemi(s, k + 1)
              IN [rest EXCEPT !.text = <<s[k]>> \o rest.text]

replace_escaped_unicode_no_semi(svg_contents) == SubFromNoSemi(svg_contents, 1)

replace_escaped_unicode(svg_contents) == SubFrom(svg_contents, 1)

(***************************************************************************)
(* get_text_from_svg.  The parsed document: elems is the sequence of       *)
(* elements in document order, each [tag, family, class, text, parent]     *)
(* (family: the font-family attribute, "" if absent; text: its own text nodes;   *)
(* parent: the index of its parent element, 0 at the top), and rules is    *)
(* the style block's rule sets, each [selector, families] (families: the   *)
(* comma-separated entries of its font-family declaration).                *)
(***************************************************************************)
\* "if family:" -- None and the empty string are both falsy; a missing name
\* (and a missing attribute, which XPath reads as "") is the empty sequence.
NoName == <<>>

Truthy(family) == family # NoName

\* .//text[contains(@font-family, family)]
AttrMatches(e, family) ==
    e.tag = "text" /\ Contains(e.family, family)

\* any(family in rule_font for rule_font in value.split(","))
RuleMatches(rule, family) ==
    \E k \in DOMAIN rule.families : Contains(rule.families[k], family)

\* sel.css(selector): a class selector or a type selector.
SelectorMatches(e, selector) ==
    IF selector.kind = "class" THEN e.class = selector.name
    ELSE e.tag = selector.name

\* Whether element a is element j or one of its ancestors.
RECURSIVE AncestorOrSelf(_, _, _)
AncestorOrSelf(elems, a, j) ==
    IF j = 0 THEN FALSE
    ELSE IF j = a THEN TRUE
    ELSE AncestorOrSelf(elems, a, elems[j].parent)

\* .css("::text") on element a: descendant-or-self::text(), in document order.
RECURSIVE DescendantText(_, _, _)
DescendantText(elems, a, j) ==
    IF j > Len(elems) THEN <<>>
    ELSE (IF AncestorOrSelf(elems, a, j) /\ elems[j].text # <<>>
          THEN <<elems[j].text>> ELSE <<>>)
         \o DescendantText(elems, a, j + 1)

\* The xpath of line 48, from element j on: the own text nodes of the
\* matching text elements.
RECURSIVE AttrText(_, _, _)
AttrText(elems, family, j) ==
    IF j > Len(elems) THEN <<>>
    ELSE (IF AttrMatches(elems[j], family) /\ elems[j].text # <<>>
          THEN <<elems[j].text>> ELSE <<>>)
         \o AttrText(elems, family, j + 1)

\* sel.css(selector_css).css("::text").getall(), from element j on.
RECURSIVE SelectorText(_, _, _)
SelectorText(elems, selector, j) ==
    IF j > Len(elems) THEN <<>>
    ELSE (IF SelectorMatches(elems[j], selector)
          THEN DescendantText(elems, j, 1) ELSE <<>>)
         \o SelectorText(elems, selector, j + 1)

\* The loop of lines 51-67 over the rules from rule k on.
RECURSIVE RulesText(_, _, _, _)
RulesText(elems, rules, family, k) ==
    IF k > Len(rules) THEN <<>>
    ELSE (IF RuleMatches(rules[k], family)
          THEN SelectorText(elems, rules[k].selector, 1) ELSE <<>>)
         \o RulesText(elems, rules, family, k + 1)

\* .//text/text() -- every text element, whatever its family.
RECURSIVE AllText(_, _)
AllText(elems, j) ==
    IF j > Len(elems) THEN <<>>
    ELSE (IF elems[j].tag = "text" /\ elems[j].text # <<>>
          THEN <<elems[j].text>> ELSE <<>>)
         \o AllText(elems, j + 1)

\* A slip: the style rules are not looked at.
get_text_from_svg_attr_only(elems, rules, family) ==
    IF Truthy(family) THEN AttrText(elems, family, 1) ELSE AllText(elems, 1)

get_text_from_svg(elems, rules, family) ==
    IF Truthy(family)
    THEN AttrText(elems, family, 1) \o RulesText(elems, rules, family, 1)
    ELSE AllText(elems, 1)

\* characters = set("".join(text))
Characters(text) == Range(Flatten(text))

(***************************************************************************)
(* FontFace.  A declaration text is [family, src]: family is what          *)
(* font_family_regex captures (stripped), src the tokens of the src        *)
(* clause.  The tokens: "src:", "url(u)", "url(v)", "local(n)",            *)
(* "format(f)", ",", ";", and, once embedded, "url('data:...')" and        *)
(* "format('woff2')".                                                      *)
(***************************************************************************)
IsUrl(tok) == tok \in {"url(u)", "url(v)", "url('data:font/woff2;base64,P')"}

UrlOf(tok) ==
    IF tok = "url(u)" THEN "u"
    ELSE IF tok = "url(v)" THEN "v"
    ELSE "data:font/woff2;base64,P"

\* src_regex.search: the first "src:" directly followed by url(...); "" when
\* there is none (None and "" are both falsy in the tests on src_url).
RECURSIVE SrcSearch(_, _)
SrcSearch(src, k) ==
    IF k + 1 > Len(src) THEN ""
    ELSE IF src[k] = "src:" /\ IsUrl(src[k + 1]) THEN UrlOf(src[k + 1])
    ELSE SrcSearch(src, k + 1)

src_url(definition) == SrcSearch(definition.src, 1)

font_family(definition) == definition.family

\* src_line of line 198.
SrcLine == <<"src:", "url('data:font/woff2;base64,P')", "format('woff2')", ";">>

\* re.sub(r"src:\s*url\(([^)]*)\)\s*;", src_line, definition) from token k:
\* only a url(...) directly followed by the semicolon is matched.
RECURSIVE SrcSub(_, _)
SrcSub(src, k) ==
    IF k > Len(src) THEN <<>>
    ELSE IF /\ k + 2 <= Len(src)
            /\ src[k] = "src:" /\ IsUrl(src[k + 1]) /\ src[k + 2] = ";"
         THEN SrcLine \o SrcSub(src, k + 3)
         ELSE <<src[k]>> \o SrcSub(src, k + 1)

\* The declaration get_font_subset_definition returns (lines 198-200).
SubsetDefinition(definition) ==
    [definition EXCEPT !.src = SrcSub(definition.src, 1)]

\* lru_cache(maxsize=1) on get_font_contents: the one entry is keyed by the
\* FontFace; a lookup hits on the same object, or on an equal one (__hash__
\* is the definition's, dataclass __eq__ compares definition and
\* font_file_name).  cache is <<>> or <<[face, coro]>>.
CacheHit(cache_, faces, file_names, i) ==
    /\ cache_ # <<>>
    /\ \/ cache_[1].face = i
       \/ /\ faces[cache_[1].face] = faces[i]
          /\ file_names[cache_[1].face] = file_names[i]

(***************************************************************************)
(* State.                                                                  *)
(***************************************************************************)
VARIABLES
    u_pc,      \* SpecUnescape: "input", "once", "twice" or "raised"
    u_in,      \* the text given to the first pass
    u_prev,    \* the text given to the latest pass
    u_text     \* svg_contents after the latest pass

uvars == <<u_pc, u_in, u_prev, u_text>>

VARIABLES
    g_pc,         \* SpecUsage: "input" or "done"
    g_elems,      \* the document's elements
    g_rules,      \* the document's style rules
    g_family,     \* the family asked for
    g_font_text   \* the list get_text_from_svg returned

gvars == <<g_pc, g_elems, g_rules, g_family, g_font_text>>

VARIABLES
    font_faces,      \* the FontFace objects: the declaration text of each
    font_file_name,  \* font_file_name of each FontFace ("" for None)
    cache,           \* get_font_contents' lru_cache
    coros,           \* the coroutine objects get_font_contents has made
    gets,            \* the GET requests issued, per FontFace
    t_wait,          \* SpecFetch: the coroutine each task awaits (0: none)
    results          \* SpecFetch: the finished calls, [task, face, result]

fvars == <<font_faces, font_file_name, cache, coros, gets>>

tvars == <<t_wait, results>>

VARIABLES
    p_pc,               \* Spec: "analyse", "process", "await_get", "done", "raised"
    keep_unused_fonts,
    svg_contents,       \* the markup's declarations, in document order
    p_elems,            \* the markup's elements
    p_rules,            \* the markup's style rules
    idx,                \* the first loop's position in font_faces
    to_process,         \* the FontFaces (by index) to subset
    pos,                \* the second loop's position in to_process
    total_fonts_size,
    heads,              \* the HEAD requests issued, per FontFace
    hist                \* per FontFace: what the run did with it

pvars == <<p_pc, keep_unused_fonts, svg_contents, p_elems, p_rules, idx,
           to_process, pos, total_fonts_size, heads, hist>>

VARIABLES
    c_pc,                \* SpecCli: where svg_font_embed is
    input_svg,           \* the INPUT_SVG argument
    output,              \* the OUTPUT_SVG argument, then the resolved path
    output_arg,          \* the OUTPUT_SVG argument as given
    inplace,
    overwrite_existing,
    files,               \* the content of each file path
    files_before,        \* the files when the command started
    stdout               \* what was written to standard output

cvars == <<c_pc, input_svg, output, output_arg, inplace, overwrite_existing,
           files, files_before, stdout>>

vars == <<uvars, gvars, fvars, tvars, pvars, cvars>>

(***************************************************************************)
(* Each specification runs one part of the program and leaves the          *)
(* variables of the other parts at these values.                           *)
(***************************************************************************)
UIdle ==
    /\ u_pc = "idle"
    /\ u_in = <<>>
    /\ u_prev = <<>>
    /\ u_text = <<>>

GIdle ==
    /\ g_pc = "idle"
    /\ g_elems = <<>>
    /\ g_rules = <<>>
    /\ g_family = NoName
    /\ g_font_text = <<>>

FIdle ==
    /\ font_faces = <<>>
    /\ font_file_name = <<>>
    /\ cache = <<>>
    /\ coros = <<>>
    /\ gets = <<>>

TIdle ==
    /\ t_wait = <<>>
    /\ results = <<>>

PIdle ==
    /\ p_pc = "idle"
    /\ keep_unused_fonts = FALSE
    /\ svg_contents = <<>>
    /\ p_elems = <<>>
    /\ p_rules = <<>>
    /\ idx = 0
    /\ to_process = <<>>
    /\ pos = 0
    /\ total_fonts_size = 0
    /\ heads = <<>>
    /\ hist = <<>>

CIdle ==
    /\ c_pc = "idle"
    /\ input_svg = ""
    /\ output = ""
    /\ output_arg = ""
    /\ inplace = FALSE
    /\ overwrite_existing = FALSE
    /\ files = <<>>
    /\ files_before = <<>>
    /\ stdout = ""

(***************************************************************************)
(* SpecUnescape: main's "if do_replace_escaped_unicode" step, run on its   *)
(* own output a second time.                                               *)
(***************************************************************************)
\* The input texts: up to MaxPieces pieces, each "&", "#", ";" or "38".
UPieces == {<<Amp>>, <<Hash>>, <<Semi>>, <<Digit0 + 3, Digit0 + 8>>}

UInputs == {Flatten(ps) : ps \in SeqsUpTo(UPieces, MaxPieces)}

InitUnescape ==
    /\ u_pc = "input"
    /\ u_in \in UInputs
    /\ u_prev = u_in
    /\ u_text = u_in
    /\ GIdle /\ FIdle /\ TIdle /\ PIdle /\ CIdle

Unescape ==
    /\ u_pc \in {"input", "once"}
    /\ LET r == replace_escaped_unicode(u_text)
       IN /\ u_pc' = IF r.raised THEN "raised"
                     ELSE IF u_pc = "input" THEN "once" ELSE "twice"
          /\ u_text' = IF r.raised THEN u_text ELSE r.text
          /\ u_prev' = u_text
    /\ UNCHANGED <<u_in, gvars, fvars, tvars, pvars, cvars>>

NextUnescape == Unescape

SpecUnescape == InitUnescape /\ [][NextUnescape]_vars

\* C2 (as stated): replace_escaped_unicode is idempotent: a second pass
\* returns what the first pass returned.
C2_Idempotent == u_pc = "twice" => u_text = u_prev

\* C2 (amended): a text free of decimal references is returned unchanged,
\* so a second pass returns what the first returned whenever the first
\* result holds no decimal reference.
C2_IdempotentOnRefFree ==
    (u_pc \in {"once", "twice"} /\ ~HasRef(u_prev)) => u_text = u_prev

\* A text with a reference whose decoding leaves none went through both passes.
C2_Witness ==
    /\ u_pc = "twice"
    /\ HasRef(u_in)
    /\ ~HasRef(u_prev)
    /\ u_prev # u_in
    /\ u_text = u_prev

(***************************************************************************)
(* SpecUsage: get_text_from_svg on a bounded document, and the usage set   *)
(* embed_fonts takes from it (lines 252-253).                              *)
(***************************************************************************)
NameS == <<"S">>
NameSM == <<"S", "M">>
NameT == <<"T">>

\* The text of the k-th element: "AB", "AC", "AD", ...
ElemText(k) == <<"A", <<"B", "C", "D", "E">>[k]>>

Elements(k) ==
    [tag : {"text", "tspan"}, family : {NoName, NameS, NameSM},
     class : {"", "c"}, text : {ElemText(k)}, parent : 0..(k - 1)]

ElemSeqs ==
    UNION {{es \in [1..n -> UNION {Elements(k) : k \in 1..n}] :
               \A k \in 1..n : es[k] \in Elements(k)} : n \in 0..MaxElems}

Selectors == {[kind |-> "class", name |-> "c"], [kind |-> "tag", name |-> "text"]}

Rules == [selector : Selectors, families : {<<NameSM>>, <<NameT, NameS>>}]

InitUsage ==
    /\ g_pc = "input"
    /\ g_elems \in ElemSeqs
    /\ g_rules \in SeqsUpTo(Rules, MaxRules)
    /\ g_family \in {NoName, NameS, NameSM}
    /\ g_font_text = <<>>
    /\ UIdle /\ FIdle /\ TIdle /\ PIdle /\ CIdle

Analyse ==
    /\ g_pc = "input"
    /\ g_font_text' = get_text_from_svg(g_elems, g_rules, g_family)
    /\ g_pc' = "done"
    /\ UNCHANGED <<g_elems, g_rules, g_family, uvars, fvars, tvars, pvars, cvars>>

NextUsage == Analyse

SpecUsage == InitUsage /\ [][NextUsage]_vars

\* The text inside element a: its own text nodes and its descendants'.
TextInside(elems, a) ==
    UNION {Range(elems[j].text) : j \in {j \in DOMAIN elems : AncestorOrSelf(elems, a, j)}}

\* The elements that the selector of a rule naming the family matches.
StyledElems(elems, rules, family) ==
    {a \in DOMAIN elems :
        \E k \in DOMAIN rules : /\ RuleMatches(rules[k], family)
                                /\ SelectorMatches(elems[a], rules[k].selector)}

\* C9, "in particular": a document of exactly one text element, whose text
\* is "AB", that refers to the family by its attribute or by a class rule.
OneTextElement ==
    /\ Len(g_elems) = 1
    /\ g_elems[1].tag = "text"
    /\ \/ Contains(g_elems[1].family, g_family)
       \/ \E k \in DOMAIN g_rules :
             /\ g_rules[k].selector = [kind |-> "class", name |-> "c"]
             /\ g_elems[1].class = "c"
             /\ RuleMatches(g_rules[k], g_family)

\* C9 (as stated): for a given family name the usage set is the set of
\* characters of the text of every element whose font-family attribute
\* contains the name, and of every element matched by the selector of a
\* style rule whose font-family list has an entry containing the name.
C9_UsageIsUnion ==
    (g_pc = "done" /\ Truthy(g_family)) =>
        /\ Characters(g_font_text) =
              UNION {TextInside(g_elems, a) :
                        a \in {a \in DOMAIN g_elems :
                                  Contains(g_elems[a].family, g_family)}}
              \cup UNION {TextInside(g_elems, a) :
                             a \in StyledElems(g_elems, g_rules, g_family)}
        /\ OneTextElement => Characters(g_font_text) = {"A", "B"}

\* C9 (amended): the usage set is the set of characters of (1) the own text
\* nodes of every text element whose font-family attribute contains the
\* name and (2) all text inside every element matched by the selector of a
\* style rule whose font-family list has an entry containing the name; one
\* text element with text "AB" yields {A, B} by either kind of reference.
C9_UsageOfTextElements ==
    (g_pc = "done" /\ Truthy(g_family)) =>
        /\ Characters(g_font_text) =
              UNION {Range(g_elems[a].text) :
                        a \in {a \in DOMAIN g_elems :
                                  /\ g_elems[a].tag = "text"
                                  /\ Contains(g_elems[a].family, g_family)}}
              \cup UNION {TextInside(g_elems, a) :
                             a \in StyledElems(g_elems, g_rules, g_family)}
        /\ OneTextElement => Characters(g_font_text) = {"A", "B"}

\* Both kinds of reference contributed: the attribute of one element (as a
\* proper substring) and a class rule matching another.
C9_Witness ==
    /\ g_pc = "done"
    /\ g_family = NameS
    /\ Len(g_elems) = 2
    /\ g_elems[1].tag = "text" /\ g_elems[1].family = NameSM /\ g_elems[1].class = ""
    /\ g_elems[2].family = NoName /\ g_elems[2].class = "c" /\ g_elems[2].parent = 0
    /\ StyledElems(g_elems, g_rules, g_family) = {2}
    /\ Characters(g_font_text) = {"A", "B", "C"}

(***************************************************************************)
(* get_font_contents (lines 123-143), shared by SpecFetch and Spec.        *)
(***************************************************************************)
\* What "await face.get_font_contents()" meets for FontFace i: a hit hands
\* back the cached coroutine object, which is finished or being awaited,
\* so awaiting it raises RuntimeError; a miss runs a new coroutine, which
\* returns None at once without a src_url and else suspends in the GET.
CallOutcome(i) ==
    IF CacheHit(cache, font_faces, font_file_name, i) THEN "RuntimeError"
    ELSE IF src_url(font_faces[i]) = "" THEN "None"
    ELSE "suspended"

\* The call's effect on the cache, the coroutines, the record and the net.
CallGetFontContents(i) ==
    IF CacheHit(cache, font_faces, font_file_name, i)
    THEN UNCHANGED <<cache, coros, font_file_name, gets>>
    ELSE /\ cache' = <<[face |-> i, coro |-> Len(coros) + 1]>>
         /\ IF src_url(font_faces[i]) = ""
            THEN /\ coros' = Append(coros, [face |-> i, state |-> "done"])
                 /\ UNCHANGED <<font_file_name, gets>>
            ELSE /\ coros' = Append(coros, [face |-> i, state |-> "suspended"])
                 /\ font_file_name' = [font_file_name EXCEPT ![i] = "name"]
                 /\ gets' = [gets EXCEPT ![i] = @ + 1]

\* The response to the GET of coroutine c arrives; the coroutine ends, with
\* the body or with the exception of raise_for_status.
FinishCoroutine(c) ==
    /\ coros[c].state = "suspended"
    /\ coros' = [coros EXCEPT ![c].state = "done"]
    /\ UNCHANGED <<cache, font_file_name, gets>>

GetOutcomes == {"HTTPError", "empty", "bytes"}

(***************************************************************************)
(* SpecFetch: MaxTasks tasks, each awaiting get_font_contents of some      *)
(* record of one document, MaxCalls calls in all.                          *)
(***************************************************************************)
SrcClauses ==
    {<<>>,
     <<"src:", "url(u)", ";">>,
     <<"src:", "url(u)", "format(f)", ";">>,
     <<"src:", "url(u)", ",", "url(v)", ";">>,
     <<"src:", "local(n)", ",", "url(u)", ";">>}

Decls == [family : {NameSM, NameT, NoName}, src : SrcClauses]

Tasks == 1..MaxTasks

NumCalls == Len(results) + Cardinality({t \in Tasks : t_wait[t] # 0})

InitFetch ==
    /\ font_faces \in UNION {[1..n -> Decls] : n \in 1..MaxFaces}
    /\ font_file_name = [i \in DOMAIN font_faces |-> ""]
    /\ cache = <<>>
    /\ coros = <<>>
    /\ gets = [i \in DOMAIN font_faces |-> 0]
    /\ t_wait = [t \in Tasks |-> 0]
    /\ results = <<>>
    /\ UIdle /\ GIdle /\ PIdle /\ CIdle

\* Task t awaits get_font_contents of record i.
Call(t, i) ==
    /\ t_wait[t] = 0
    /\ NumCalls < MaxCalls
    /\ CallGetFontContents(i)
    /\ IF CallOutcome(i) = "suspended"
       THEN /\ t_wait' = [t_wait EXCEPT ![t] = Len(coros) + 1]
            /\ UNCHANGED results
       ELSE /\ results' = Append(results,
                             [task |-> t, face |-> i, result |-> CallOutcome(i)])
            /\ UNCHANGED t_wait
    /\ UNCHANGED <<font_faces, uvars, gvars, pvars, cvars>>

\* The GET that task t's coroutine waits for is answered.
Respond(t, outcome) ==
    /\ t_wait[t] # 0
    /\ FinishCoroutine(t_wait[t])
    /\ results' = Append(results,
                    [task |-> t, face |-> coros[t_wait[t]].face, result |-> outcome])
    /\ t_wait' = [t_wait EXCEPT ![t] = 0]
    /\ UNCHANGED <<font_faces, uvars, gvars, pvars, cvars>>

NextFetch ==
    \/ \E t \in Tasks, i \in DOMAIN font_faces : Call(t, i)
    \/ \E t \in Tasks, outcome \in GetOutcomes : Respond(t, outcome)

SpecFetch == InitFetch /\ [][NextFetch]_vars

\* C1: whatever the sequence of calls, at most one GET is issued per record
\* and every call after the first on a record returns what the first
\* returned, without failing.
C1_AtMostOneFetch ==
    /\ \A i \in DOMAIN gets : gets[i] <= 1
    /\ \A k \in DOMAIN results : \A m \in 1..(k - 1) :
          results[m].face = results[k].face =>
              results[k].result = results[m].result

(***************************************************************************)
(* Spec: embed_fonts (lines 224-283) on one document.                      *)
(***************************************************************************)
\* FontFace.from_svg: one FontFace per match of font_face_regex, in order.
from_svg(markup) == markup

\* A slip: the result of str.replace is not assigned.
ReplaceDiscarded(markup, old, new) == markup

\* str.replace(old, new) on the markup: every occurrence of the text old
\* gives way to new (<<>>: removed; <<d>>: the text d).
RECURSIVE Replace(_, _, _)
Replace(markup, old, new) ==
    IF markup = <<>> THEN <<>>
    ELSE (IF Head(markup) = old THEN new ELSE <<Head(markup)>>)
         \o Replace(Tail(markup), old, new)

\* A slip: the flag is not looked at.
DroppedWhateverTheFlag(characters, keep) == characters = {}

\* Lines 254-258: an unused face is thrown away unless the flag keeps it.
Dropped(characters, keep) == characters = {} /\ ~keep

\* A slip: the HEAD request is made without looking at src_url.
HeadIssuedAlways(definition) == TRUE

\* Line 264: the size is asked for only when the face has a src_url.
HeadIssued(definition) == src_url(definition) # ""

\* What the HEAD request (lines 265-271) can meet.
HeadOutcomes ==
    [kind : {"absent", "unparseable", "transport", "InvalidURL"}, n : {0}]
    \cup [kind : {"length"}, n : 0..MaxBytes]

\* A slip: ValueError is left out of the except clause.
HeadResultValueErrorEscapes(outcome) ==
    IF outcome.kind = "length" THEN [raised |-> FALSE, size |-> outcome.n]
    ELSE IF outcome.kind \in {"absent", "transport"}
    THEN [raised |-> FALSE, size |-> 0]
    ELSE [raised |-> TRUE, size |-> 0]

\* Lines 263-271: int(headers.get("content-length", 0)) is added; HTTPError
\* (the transport errors among them), ValueError and TypeError are caught
\* and add nothing; any other exception (httpx.InvalidURL) escapes.
HeadResult(outcome) ==
    IF outcome.kind = "length" THEN [raised |-> FALSE, size |-> outcome.n]
    ELSE IF outcome.kind \in {"absent", "unparseable", "transport"}
    THEN [raised |-> FALSE, size |-> 0]
    ELSE [raised |-> TRUE, size |-> 0]

\* The documents' text-bearing parts the pipeline is run on.
PDocs ==
    {[elems |-> <<>>, rules |-> <<>>],
     [elems |-> <<[tag |-> "text", family |-> NameSM, class |-> "",
                   text |-> ElemText(1), parent |-> 0]>>,
      rules |-> <<>>],
     [elems |-> <<[tag |-> "text", family |-> NoName, class |-> "c",
                   text |-> ElemText(1), parent |-> 0]>>,
      rules |-> <<[selector |-> [kind |-> "class", name |-> "c"],
                   families |-> <<NameT>>]>>]}

NoHist ==
    [decision |-> "", head |-> "", added |-> 0, fetched |-> "",
     result |-> <<>>, raised |-> FALSE]

Init ==
    /\ svg_contents \in SeqsUpTo(Decls, MaxFaces)
    /\ \E doc \in PDocs : p_elems = doc.elems /\ p_rules = doc.rules
    /\ keep_unused_fonts \in BOOLEAN
    /\ font_faces = from_svg(svg_contents)
    /\ font_file_name = [i \in DOMAIN font_faces |-> ""]
    /\ cache = <<>>
    /\ coros = <<>>
    /\ gets = [i \in DOMAIN font_faces |-> 0]
    /\ heads = [i \in DOMAIN font_faces |-> 0]
    /\ hist = [i \in DOMAIN font_faces |-> NoHist]
    /\ idx = 1
    /\ pos = 1
    /\ to_process = <<>>
    /\ total_fonts_size = 0
    /\ p_pc = IF font_faces = <<>> THEN "process" ELSE "analyse"
    /\ UIdle /\ GIdle /\ TIdle /\ CIdle

\* Lines 252-253: the usage set of FontFace i.
UsageOf(i) ==
    Characters(get_text_from_svg(p_elems, p_rules, font_family(font_faces[i])))

\* The first loop goes on to its next face, or ends.
NextFace ==
    /\ idx' = idx + 1
    /\ p_pc' = IF idx + 1 > Len(font_faces) THEN "process" ELSE "analyse"

\* Lines 254-256: a used face is queued.
AnalyseUsed ==
    /\ p_pc = "analyse"
    /\ UsageOf(idx) # {}
    /\ to_process' = Append(to_process, [face |-> idx, characters |-> UsageOf(idx)])
    /\ hist' = [hist EXCEPT ![idx].decision = "process"]
    /\ NextFace
    /\ UNCHANGED <<keep_unused_fonts, svg_contents, p_elems, p_rules, pos,
                   total_fonts_size, heads, fvars, uvars, gvars, tvars, cvars>>

\* Lines 272-273: an unused face is kept.
KeepUnused ==
    /\ p_pc = "analyse"
    /\ UsageOf(idx) = {}
    /\ ~Dropped(UsageOf(idx), keep_unused_fonts)
    /\ hist' = [hist EXCEPT ![idx].decision = "keep"]
    /\ NextFace
    /\ UNCHANGED <<keep_unused_fonts, svg_contents, p_elems, p_rules, to_process,
                   pos, total_fonts_size, heads, fvars, uvars, gvars, tvars, cvars>>

\* Lines 258-271: an unused face is removed from the markup and its size
\* asked for.
DropUnused(outcome) ==
    /\ p_pc = "analyse"
    /\ Dropped(UsageOf(idx), keep_unused_fonts)
    /\ svg_contents' = Replace(svg_contents, font_faces[idx], <<>>)
    /\ IF HeadIssued(font_faces[idx])
       THEN LET r == HeadResult(outcome)
            IN /\ heads' = [heads EXCEPT ![idx] = @ + 1]
               /\ total_fonts_size' = total_fonts_size + r.size
               /\ hist' = [hist EXCEPT ![idx] =
                             [@ EXCEPT !.decision = "drop", !.head = outcome.kind,
                                       !.added = r.size, !.raised = r.raised]]
               /\ IF r.raised
                  THEN p_pc' = "raised" /\ UNCHANGED idx
                  ELSE NextFace
       ELSE /\ outcome.kind = "absent"
            /\ hist' = [hist EXCEPT ![idx].decision = "drop"]
            /\ NextFace
            /\ UNCHANGED <<heads, total_fonts_size>>
    /\ UNCHANGED <<keep_unused_fonts, p_elems, p_rules, to_process, pos,
                   fvars, uvars, gvars, tvars, cvars>>

\* Lines 277 and 170-174: get_font_subset_definition awaits the face's
\* get_font_contents, which raises, returns None or suspends in the GET.
SubsetCall ==
    /\ p_pc = "process"
    /\ pos <= Len(to_process)
    /\ LET i == to_process[pos].face
       IN /\ CallGetFontContents(i)
          /\ hist' = [hist EXCEPT ![i] =
                        [@ EXCEPT !.fetched = CallOutcome(i),
                                  !.raised = CallOutcome(i) = "RuntimeError"]]
          /\ p_pc' = CASE CallOutcome(i) = "RuntimeError" -> "raised"
                       [] CallOutcome(i) = "None" -> "process"
                       [] OTHER -> "await_get"
          /\ pos' = IF CallOutcome(i) = "None" THEN pos + 1 ELSE pos
    /\ UNCHANGED <<font_faces, keep_unused_fonts, svg_contents, p_elems, p_rules,
                   idx, to_process, total_fonts_size, heads, uvars, gvars, tvars, cvars>>

\* Lines 139-143, 172-200 and 278-282: the GET is answered; an error status
\* raises, an empty body is skipped, and a font is subsetted (the engine
\* may raise) and spliced into the markup.
SubsetResume(outcome, size, engine) ==
    /\ p_pc = "await_get"
    /\ FinishCoroutine(Len(coros))
    /\ LET i == to_process[pos].face
           skipped == outcome = "empty"
           raises == outcome = "HTTPError" \/ (outcome = "bytes" /\ engine = "fails")
           subset_definition == SubsetDefinition(font_faces[i])
       IN /\ p_pc' = IF raises THEN "raised" ELSE "process"
          /\ pos' = IF raises THEN pos ELSE pos + 1
          /\ svg_contents' = IF raises \/ skipped THEN svg_contents
                             ELSE Replace(svg_contents, font_faces[i],
                                          <<subset_definition>>)
          /\ total_fonts_size' = IF raises \/ skipped THEN total_fonts_size
                                 ELSE total_fonts_size + size
          /\ hist' = [hist EXCEPT ![i] =
                        [@ EXCEPT !.fetched = outcome,
                                  !.raised = raises,
                                  !.added = IF raises \/ skipped THEN 0 ELSE size,
                                  !.result = IF raises \/ skipped THEN <<>>
                                             ELSE <<subset_definition>>]]
    /\ UNCHANGED <<font_faces, keep_unused_fonts, p_elems, p_rules, idx,
                   to_process, heads, uvars, gvars, tvars, cvars>>

\* Line 283.
Return ==
    /\ p_pc = "process"
    /\ pos > Len(to_process)
    /\ p_pc' = "done"
    /\ UNCHANGED <<keep_unused_fonts, svg_contents, p_elems, p_rules, idx,
                   to_process, pos, total_fonts_size, heads, hist,
                   fvars, uvars, gvars, tvars, cvars>>

Next ==
    \/ AnalyseUsed
    \/ KeepUnused
    \/ \E outcome \in HeadOutcomes : DropUnused(outcome)
    \/ SubsetCall
    \/ \E outcome \in GetOutcomes, size \in 1..MaxBytes, engine \in {"ok", "fails"} :
          SubsetResume(outcome, size, engine)
    \/ Return

Spec == Init /\ [][Next]_vars

RECURSIVE SumAdded(_)
SumAdded(k) == IF k = 0 THEN 0 ELSE hist[k].added + SumAdded(k - 1)

HasExternalUrl(definition) ==
    \E k \in DOMAIN definition.src : definition.src[k] \in {"url(u)", "url(v)"}

\* C3: whenever get_font_subset_definition returns a result for a record,
\* the declaration it returns has the data-URI src clause in place of the
\* original one and no longer refers to the external URL.
C3_SrcClauseEmbedded ==
    \A i \in DOMAIN hist :
        hist[i].result # <<>> =>
            /\ Contains(hist[i].result[1].src, SrcLine)
            /\ ~HasExternalUrl(hist[i].result[1])

\* C4: when embed_fonts returns with keep_unused_fonts false, the
\* declaration text of every record with an empty usage set occurs nowhere
\* in the returned markup.
C4_UnusedAbsent ==
    (p_pc = "done" /\ ~keep_unused_fonts) =>
        \A i \in DOMAIN font_faces :
            UsageOf(i) = {} => font_faces[i] \notin Range(svg_contents)

\* An unused record was dropped, and a record after it subsetted and
\* spliced, in a run that returned.
C4_Witness ==
    /\ p_pc = "done"
    /\ ~keep_unused_fonts
    /\ \E i, k \in DOMAIN font_faces :
          /\ i < k
          /\ UsageOf(i) = {} /\ hist[i].decision = "drop"
          /\ hist[k].result # <<>>
          /\ hist[k].result[1] \in Range(svg_contents)

\* C5: with keep_unused_fonts true, a record with an empty usage set causes
\* no request, adds nothing to the ledger, and its declaration text is in
\* the returned markup where it was, unchanged.
C5_UnusedKept ==
    keep_unused_fonts =>
        /\ total_fonts_size = SumAdded(Len(hist))
        /\ \A i \in DOMAIN font_faces :
              UsageOf(i) = {} =>
                  /\ heads[i] = 0 /\ gets[i] = 0
                  /\ hist[i].added = 0
                  /\ p_pc = "done" =>
                        /\ Len(svg_contents) = Len(font_faces)
                        /\ svg_contents[i] = font_faces[i]

\* An unused record was kept while another record was subsetted and the
\* markup rewritten.
C5_Witness ==
    /\ p_pc = "done"
    /\ keep_unused_fonts
    /\ \E i, k \in DOMAIN font_faces :
          /\ UsageOf(i) = {} /\ hist[i].decision = "keep"
          /\ hist[k].result # <<>>
          /\ svg_contents[k] # font_faces[k]
          /\ total_fonts_size > 0

\* C6: a record with a non-empty usage set for which the fetch yields no
\* content (no source URL, or an empty body) is skipped without raising:
\* no result, nothing added to the ledger, the declaration left in the
\* markup, and the loop goes on.
C6_NoContentSkipped ==
    \A k \in DOMAIN to_process :
        LET i == to_process[k].face
        IN (/\ hist[i].fetched \notin {"", "suspended"}
            /\ \/ src_url(font_faces[i]) = ""
               \/ hist[i].fetched = "empty")
           => /\ ~hist[i].raised
              /\ hist[i].result = <<>>
              /\ hist[i].added = 0
              /\ pos > k
              /\ font_faces[i] \in Range(svg_contents)

\* C8: when an unused record is dropped and its HEAD request finds no
\* content-length, fails in transport or returns an unparseable value, the
\* record adds nothing to the ledger, its declaration is gone from the
\* markup, and the first loop has gone on past it.
C8_HeadNonFatal ==
    /\ p_pc # "idle" => total_fonts_size = SumAdded(Len(hist))
    /\ \A i \in DOMAIN hist :
          hist[i].head \in {"absent", "unparseable", "transport"} =>
              /\ hist[i].added = 0
              /\ ~hist[i].raised
              /\ idx > i
              /\ font_faces[i] \notin Range(svg_contents)

\* A HEAD request returned an unparseable content-length, and the run went
\* on to subset a later record and returned.
C8_Witness ==
    /\ p_pc = "done"
    /\ \E i, k \in DOMAIN hist :
          /\ i < k
          /\ hist[i].head = "unparseable"
          /\ hist[k].result # <<>>

\* C10: a GET is issued only for a record with a non-empty usage set and
\* only once the first loop has decided every record; a record with an
\* empty usage set causes no GET and at most one HEAD, and that only when
\* it is dropped and has a source URL.
C10_RequestOrder ==
    \A i \in DOMAIN hist :
        /\ gets[i] > 0 =>
              /\ UsageOf(i) # {}
              /\ idx > Len(font_faces)
              /\ \A k \in DOMAIN hist : hist[k].decision # ""
        /\ UsageOf(i) = {} =>
              /\ gets[i] = 0
              /\ heads[i] <= 1
              /\ heads[i] = 1 =>
                    /\ hist[i].decision = "drop"
                    /\ ~keep_unused_fonts
                    /\ src_url(font_faces[i]) # ""

\* One record was dropped with a HEAD request and another fetched by GET.
C10_Witness ==
    /\ p_pc = "done"
    /\ \E i, k \in DOMAIN hist : heads[i] = 1 /\ gets[k] = 1

(***************************************************************************)
(* SpecCli: svg_font_embed (lines 331-430).  Paths are names: "-" is the   *)
(* dash, "." and "dir" are directories, the others are file paths whose    *)
(* content is "absent", "original" or "written".                           *)
(***************************************************************************)
Directories == {".", "dir"}

FilePaths == {"in.svg", "out.svg", "./in_subset.svg", "dir/in_subset.svg"}

\* Line 396: (output / input_svg.name).with_stem(input_svg.stem + "_subset").
SubsetPathIn(directory) ==
    IF directory = "." THEN "./in_subset.svg" ELSE "dir/in_subset.svg"

Exists(path) == path \in Directories \/ (path \in FilePaths /\ files[path] # "absent")

\* A slip: the check of line 390 is missing.
InplaceConflictUnchecked(inplace_, output_) == FALSE

\* Line 390: --inplace together with an output other than the default ".".
InplaceConflict(inplace_, output_) == inplace_ /\ output_ # "."

\* Lines 395-401: the path the result goes to.
ResolvedOutput ==
    IF inplace THEN input_svg
    ELSE IF output \in Directories THEN SubsetPathIn(output)
    ELSE output

InitCli ==
    /\ c_pc = "start"
    /\ input_svg \in {"in.svg", "-"}
    /\ output_arg \in {".", "-", "dir", "out.svg", "in.svg"}
    /\ output = output_arg
    /\ inplace \in BOOLEAN
    /\ overwrite_existing \in BOOLEAN
    /\ files \in [FilePaths -> {"absent", "original"}]
    /\ files["in.svg"] = "original"
    /\ files_before = files
    /\ stdout = ""
    /\ UIdle /\ GIdle /\ FIdle /\ TIdle /\ PIdle

CliUnchanged == UNCHANGED <<uvars, gvars, fvars, tvars, pvars>>

\* Lines 390-392.
CheckInplace ==
    /\ c_pc = "start"
    /\ c_pc' = IF InplaceConflict(inplace, output) THEN "exit1" ELSE "checked"
    /\ UNCHANGED <<input_svg, output, output_arg, inplace, overwrite_existing,
                   files, files_before, stdout>>
    /\ CliUnchanged

\* Lines 394-407.
ResolveOutput ==
    /\ c_pc = "checked"
    /\ IF output = "-"
       THEN c_pc' = "resolved" /\ UNCHANGED output
       ELSE IF Exists(ResolvedOutput) /\ ~overwrite_existing /\ ~inplace
            THEN c_pc' = "exit1" /\ UNCHANGED output
            ELSE c_pc' = "resolved" /\ output' = ResolvedOutput
    /\ UNCHANGED <<input_svg, output_arg, inplace, overwrite_existing,
                   files, files_before, stdout>>
    /\ CliUnchanged

\* Lines 409-423: the input is read and main run; it returns the new markup
\* or an exception of the pipeline escapes.
RunMain(outcome) ==
    /\ c_pc = "resolved"
    /\ c_pc' = IF outcome = "returns" THEN "ran" ELSE "raised"
    /\ UNCHANGED <<input_svg, output, output_arg, inplace, overwrite_existing,
                   files, files_before, stdout>>
    /\ CliUnchanged

\* Lines 425-430.
WriteOutput ==
    /\ c_pc = "ran"
    /\ IF output = "-"
       THEN stdout' = "written" /\ UNCHANGED files
       ELSE files' = [files EXCEPT ![output] = "written"] /\ UNCHANGED stdout
    /\ c_pc' = "done"
    /\ UNCHANGED <<input_svg, output, output_arg, inplace, overwrite_existing,
                   files_before>>
    /\ CliUnchanged

NextCli ==
    \/ CheckInplace
    \/ ResolveOutput
    \/ \E outcome \in {"returns", "raises"} : RunMain(outcome)
    \/ WriteOutput

SpecCli == InitCli /\ [][NextCli]_vars

NothingWritten == files = files_before /\ stdout = ""

\* C7: a command that ends in a fatal failure (--inplace with an explicit
\* output, an existing output without the overwrite flag, a failure of the
\* pipeline) has written nothing; whatever is written is written once the
\* pipeline has returned, and each of these failures keeps the command
\* from writing.
C7_NoWriteOnFailure ==
    /\ c_pc \in {"exit1", "raised"} => NothingWritten
    /\ ~NothingWritten => c_pc = "done"
    /\ (inplace /\ output_arg # ".") => (c_pc \in {"start", "exit1"} /\ NothingWritten)
    /\ (/\ ~inplace /\ output_arg # "-"
        /\ ~overwrite_existing
        /\ files_before[IF output_arg \in Directories
                        THEN SubsetPathIn(output_arg) ELSE output_arg] # "absent")
       => (c_pc \in {"start", "checked", "exit1"} /\ NothingWritten)

\* The pipeline failed in in-place mode and the input file is as it was.
C7_Witness ==
    /\ c_pc = "raised"
    /\ inplace
    /\ output = "in.svg"
    /\ files["in.svg"] = "original"

====
